---- MODULE Spec2Model ----
(***************************************************************************)
(* A model of cattool.py, the WWT core catalog tool: the imageset store    *)
(* (ImagesetDatabase), the place store (PlaceDatabase), the directory swap *)
(* both rewrites end with, the prettify re-tokenizer and the entrypoint.   *)
(*                                                                         *)
(* A Python str is modelled as a sequence of one-character strings, so     *)
(* that joining, lower-casing, formatting, slicing and the ordinal order   *)
(* of strings are computed and not assumed.  A Python dict is a function   *)
(* whose domain is the set of keys present (place-info records) or a       *)
(* sequence in insertion order (by_url, by_key).  A float is modelled in   *)
(* fixed point, as an integer number of tenths.                            *)
(***************************************************************************)
EXTENDS Integers, Sequences, FiniteSets, TLC

VARIABLES
    by_url,     \* ImagesetDatabase.by_url, in dict insertion order
    idb_fs,     \* imagesets, imagesets.new and imagesets.old on disk
    out,        \* what the last call did: its name, result, warning
    first,      \* history: url -> the first imageset added with that url
    infos,      \* PlaceDatabase.infos
    pdb_fs,     \* places, places.new and places.old on disk
    key_in,     \* a place-info dict whose partition key is computed
    key_out,    \* the key computed for key_in, None before
    xml_in,     \* the element whose serialized line prettify reads
    printed,    \* what prettify printed and how it ended
    argv,       \* the subcommand name on the command line
    wtml,       \* the nodes Folder.walk yields, in order
    wtml_b,     \* the same nodes in another order, for a second run
    disk0,      \* the catalog directories before the tool ran
    pc,         \* "idle"; "start", "ran_a" after the first run, "ran_b" after the second
    exit_code,  \* the exit status of the last run
    stderr,     \* what die() printed in the last run
    snap_a      \* the catalog directories and exit status the first run left

storeVars == <<by_url, idb_fs, out, first, infos, pdb_fs>>

keyVars == <<key_in, key_out>>

xmlVars == <<xml_in, printed>>

toolVars == <<argv, wtml, wtml_b, disk0, pc, exit_code, stderr, snap_a>>

vars == <<storeVars, keyVars, xmlVars, toolVars>>

----------------------------------------------------------------------------
(* Strings                                                                 *)

\* The printable ASCII characters in code point order, 32 to 126 (the grave
\* accent, which a TLA+ string cannot hold, by name).
Ascii ==
    << " ", "!", "\"", "#", "$", "%", "&", "'", "(", ")", "*", "+", ",", "-",
       ".", "/", "0", "1", "2", "3", "4", "5", "6", "7", "8", "9", ":", ";",
       "<", "=", ">", "?", "@", "A", "B", "C", "D", "E", "F", "G", "H", "I",
       "J", "K", "L", "M", "N", "O", "P", "Q", "R", "S", "T", "U", "V", "W",
       "X", "Y", "Z", "[", "\\", "]", "^", "_", "grave", "a", "b", "c", "d", "e",
       "f", "g", "h", "i", "j", "k", "l", "m", "n", "o", "p", "q", "r", "s",
       "t", "u", "v", "w", "x", "y", "z", "{", "|", "}", "~" >>

CodePoint ==
    [c \in { Ascii[i] : i \in 1..Len(Ascii) } |->
        31 + (CHOOSE i \in 1..Len(Ascii) : Ascii[i] = c)]

Ord(c) == CodePoint[c]

Chr(n) == Ascii[n - 31]

\* str.lower() on one character, then on a string.
LowerChar(c) == IF Ord(c) \in 65..90 THEN Chr(Ord(c) + 32) ELSE c

Lower(s) == [i \in 1..Len(s) |-> LowerChar(s[i])]

\* a < b on Python strings: the ordinal (code point) lexicographic order.
RECURSIVE StrLess(_, _)
StrLess(a, b) ==
    IF b = << >> THEN FALSE
    ELSE IF a = << >> THEN TRUE
    ELSE IF a[1] = b[1] THEN StrLess(Tail(a), Tail(b))
    ELSE Ord(a[1]) < Ord(b[1])

\* sep.join(parts)
RECURSIVE Join(_, _)
Join(parts, sep) ==
    IF parts = << >> THEN << >>
    ELSE IF Len(parts) = 1 THEN parts[1]
    ELSE parts[1] \o sep \o Join(Tail(parts), sep)

\* None where a string may stand: no string has an element of four letters.
None == << "None" >>

----------------------------------------------------------------------------
(* Bounds and the inputs drawn from them                                   *)

MaxUrls == 2

UrlList == << <<"a", "b">>, <<"B">>, <<"a">>, <<"b">>, <<"a", "a">> >>

Urls == { UrlList[i] : i \in 1..MaxUrls }

Sky == <<"S", "k", "y">>
Earth == <<"E", "a", "r", "t", "h">>
Mars == <<"M", "a", "r", "s">>
Visible == <<"V", "i", "s", "i", "b", "l", "e">>

\* The imagesets a caller may add: the same url comes with different other
\* fields, the frame is absent, "Sky" or another, the band absent or given.
ImageSets ==
    { [url |-> u, data_set_type |-> v[1], reference_frame |-> v[2],
       band_pass |-> v[3]] :
        u \in Urls,
        v \in { <<Sky, None, Visible>>, <<Sky, Sky, Visible>>,
                <<Sky, Mars, None>>, <<Earth, None, None>> } }

----------------------------------------------------------------------------
(* ImagesetDatabase                                                        *)

HasUrl(byurl, u) == \E i \in 1..Len(byurl) : byurl[i].url = u

\* add_imageset as it would be if the later imageset replaced the earlier.
AddImagesetLastWins(byurl, imgset) ==
    IF HasUrl(byurl, imgset.url)
    THEN [by_url |-> [i \in 1..Len(byurl) |->
                        IF byurl[i].url = imgset.url THEN imgset ELSE byurl[i]],
          warning |-> imgset.url]
    ELSE [by_url |-> Append(byurl, imgset), warning |-> None]

\* add_imageset: a url that is already a key is dropped with a warning.
AddImageset(byurl, imgset) ==
    IF HasUrl(byurl, imgset.url)
    THEN [by_url |-> byurl, warning |-> imgset.url]
    ELSE [by_url |-> Append(byurl, imgset), warning |-> None]

\* The partition key as it would be if the "Sky" frame were not left out.
ImagesetKeyWithSky(imgset) ==
    LET k1 == << imgset.data_set_type >>
        k2 == IF imgset.reference_frame # None
              THEN Append(k1, imgset.reference_frame) ELSE k1
        k3 == IF imgset.band_pass # None
              THEN Append(k2, imgset.band_pass) ELSE k2
    IN  Lower(Join(k3, <<"_">>))

\* The partition key of one imageset.
ImagesetKey(imgset) ==
    LET k1 == << imgset.data_set_type >>
        k2 == IF imgset.reference_frame # None /\ imgset.reference_frame # Sky
              THEN Append(k1, imgset.reference_frame) ELSE k1
        k3 == IF imgset.band_pass # None
              THEN Append(k2, imgset.band_pass) ELSE k2
    IN  Lower(Join(k3, <<"_">>))

\* by_key.setdefault(key, []).append(item) on a dict in insertion order.
SetDefaultAppend(bykey, key, item) ==
    IF \E i \in 1..Len(bykey) : bykey[i].key = key
    THEN [i \in 1..Len(bykey) |->
            IF bykey[i].key = key
            THEN [key |-> key, members |-> Append(bykey[i].members, item)]
            ELSE bykey[i]]
    ELSE Append(bykey, [key |-> key, members |-> << item >>])

RECURSIVE GroupImagesets(_, _)
GroupImagesets(byurl, bykey) ==
    IF byurl = << >> THEN bykey
    ELSE GroupImagesets(Tail(byurl),
                        SetDefaultAppend(bykey, ImagesetKey(byurl[1]), byurl[1]))

\* Where a stable insertion of x goes in the url-sorted sequence s: after
\* every member that is not greater.
RECURSIVE InsertByUrl(_, _)
InsertByUrl(s, x) ==
    IF s = << >> THEN << x >>
    ELSE IF StrLess(x.url, s[1].url) THEN << x >> \o s
    ELSE << s[1] >> \o InsertByUrl(Tail(s), x)

\* sorted(imgsets, key=lambda s: s.url)
RECURSIVE SortedByUrl(_)
SortedByUrl(s) ==
    IF s = << >> THEN << >>
    ELSE InsertByUrl(SortedByUrl(SubSeq(s, 1, Len(s) - 1)), s[Len(s)])

XmlExt == <<".", "x", "m", "l">>

\* The shard files rewrite writes, in the order it writes them.
ImagesetFiles(byurl) ==
    LET bykey == GroupImagesets(byurl, << >>)
    IN  [i \in 1..Len(bykey) |->
            [name |-> bykey[i].key \o XmlExt,
             err |-> "none",
             body |-> [name |-> bykey[i].key,
                       children |-> SortedByUrl(bykey[i].members)]]]

----------------------------------------------------------------------------
(* Directories and the swap that ends both rewrites                        *)

NoFiles == [n \in {} |-> << >>]

NoDir == [exists |-> FALSE, files |-> NoFiles]

\* A directory holding the given files (a later file of the same name
\* replaces an earlier one).
DirOf(files) ==
    [exists |-> TRUE,
     files |-> [n \in { files[i].name : i \in 1..Len(files) } |->
                  LET last == CHOOSE i \in 1..Len(files) :
                                /\ files[i].name = n
                                /\ \A j \in (i + 1)..Len(files) : files[j].name # n
                  IN  files[last].body]]

IsEmptyDir(d) == d.exists /\ DOMAIN d.files = {}

\* The steps of rewrite at which the file system may refuse.
NoFail == [step |-> "none", n |-> 0]

Failures(files) ==
    { [step |-> s, n |-> 0] : s \in {"none", "mkdir", "rename_old", "rename_new", "rmtree"} }
    \cup { [step |-> "write", n |-> j] : j \in 0..(Len(files) - 1) }

\* The first file whose preparation raises (the sort of a place shard), or 0.
FirstErr(files) ==
    IF \A i \in 1..Len(files) : files[i].err = "none" THEN 0
    ELSE CHOOSE i \in 1..Len(files) :
            /\ files[i].err # "none"
            /\ \A j \in 1..(i - 1) : files[j].err = "none"

\* The swap as it would be without the final shutil.rmtree(olddir).
AtomicSwapKeepOld(fs, files, fail) ==
    IF fs.new.exists \/ fail.step = "mkdir"
    THEN [fs |-> fs, result |-> "OSError"]
    ELSE IF fail.step = "write" /\ (FirstErr(files) = 0 \/ fail.n + 1 < FirstErr(files))
    THEN [fs |-> [fs EXCEPT !.new = DirOf(SubSeq(files, 1, fail.n))],
          result |-> "OSError"]
    ELSE IF FirstErr(files) # 0
    THEN [fs |-> [fs EXCEPT !.new = DirOf(SubSeq(files, 1, FirstErr(files) - 1))],
          result |-> files[FirstErr(files)].err]
    ELSE IF ~fs.dir.exists \/ (fs.old.exists /\ ~IsEmptyDir(fs.old))
            \/ fail.step = "rename_old"
    THEN [fs |-> [fs EXCEPT !.new = DirOf(files)], result |-> "OSError"]
    ELSE IF fail.step = "rename_new"
    THEN [fs |-> [dir |-> NoDir, new |-> DirOf(files), old |-> fs.dir],
          result |-> "OSError"]
    ELSE [fs |-> [dir |-> DirOf(files), new |-> NoDir, old |-> fs.dir],
          result |-> "ok"]

\* tempdir.mkdir(); then every file in turn is prepared and written (an
\* exception of either ends the call); db_dir.rename(olddir);
\* tempdir.rename(db_dir); shutil.rmtree(olddir).  An exception leaves the
\* directories as the steps before it made them.
AtomicSwap(fs, files, fail) ==
    IF fs.new.exists \/ fail.step = "mkdir"
    THEN [fs |-> fs, result |-> "OSError"]
    ELSE IF fail.step = "write" /\ (FirstErr(files) = 0 \/ fail.n + 1 < FirstErr(files))
    THEN [fs |-> [fs EXCEPT !.new = DirOf(SubSeq(files, 1, fail.n))],
          result |-> "OSError"]
    ELSE IF FirstErr(files) # 0
    THEN [fs |-> [fs EXCEPT !.new = DirOf(SubSeq(files, 1, FirstErr(files) - 1))],
          result |-> files[FirstErr(files)].err]
    ELSE IF ~fs.dir.exists \/ (fs.old.exists /\ ~IsEmptyDir(fs.old))
            \/ fail.step = "rename_old"
    THEN [fs |-> [fs EXCEPT !.new = DirOf(files)], result |-> "OSError"]
    ELSE IF fail.step = "rename_new"
    THEN [fs |-> [dir |-> NoDir, new |-> DirOf(files), old |-> fs.dir],
          result |-> "OSError"]
    ELSE IF fail.step = "rmtree"
    THEN [fs |-> [dir |-> DirOf(files), new |-> NoDir, old |-> fs.dir],
          result |-> "OSError"]
    ELSE [fs |-> [dir |-> DirOf(files), new |-> NoDir, old |-> NoDir],
          result |-> "ok"]

\* ImagesetDatabase.rewrite
IdbRewrite(byurl, fs, fail) == AtomicSwap(fs, ImagesetFiles(byurl), fail)

----------------------------------------------------------------------------
(* The imageset store as its callers see it                                *)

CleanFs == [dir |-> DirOf(<< >>), new |-> NoDir, old |-> NoDir]

\* Both stores constructed on empty catalog directories.
StoreInit ==
    /\ by_url = << >>
    /\ idb_fs = CleanFs
    /\ out = [op |-> "init", result |-> "ok", warning |-> None,
              before |-> CleanFs.dir, after_rewrite |-> FALSE]
    /\ first = [u \in {} |-> None]
    /\ infos = << >>
    /\ pdb_fs = CleanFs

\* The variables of the other specifications, at rest.
KeysIdle == key_in = [k \in {} |-> 0] /\ key_out = None

XmlIdle == xml_in = [kind |-> "none"] /\ printed = [err |-> "none", lines |-> << >>]

ToolIdle ==
    /\ argv = << >>
    /\ wtml = << >>
    /\ wtml_b = << >>
    /\ disk0 = [idb |-> CleanFs, pdb |-> CleanFs]
    /\ pc = "idle"
    /\ exit_code = 0
    /\ stderr = None
    /\ snap_a = [idb |-> NoDir, pdb |-> NoDir, exit_code |-> 0]

Init == StoreInit /\ KeysIdle /\ XmlIdle /\ ToolIdle

CallAddImageset ==
    \E imgset \in ImageSets :
        LET r == AddImageset(by_url, imgset)
        IN  /\ by_url' = r.by_url
            /\ out' = [op |-> "add_imageset", result |-> "ok",
                       warning |-> r.warning,
                       before |-> idb_fs.dir, after_rewrite |-> FALSE]
            /\ first' = IF imgset.url \in DOMAIN first THEN first
                        ELSE first @@ (imgset.url :> imgset)
            /\ UNCHANGED <<idb_fs, infos, pdb_fs, keyVars, xmlVars, toolVars>>

CallIdbRewrite ==
    \E fail \in Failures(ImagesetFiles(by_url)) :
        LET r == IdbRewrite(by_url, idb_fs, fail)
        IN  /\ idb_fs' = r.fs
            /\ out' = [op |-> "idb_rewrite", result |-> r.result,
                       warning |-> None, before |-> idb_fs.dir,
                       after_rewrite |-> (out.op = "idb_rewrite" /\ out.result = "ok")]
            /\ UNCHANGED <<by_url, first, infos, pdb_fs, keyVars, xmlVars, toolVars>>

Next == CallAddImageset \/ CallIdbRewrite

Spec == Init /\ [][Next]_vars

----------------------------------------------------------------------------
(* PlaceDatabase                                                           *)

MaxPlaces == 2

NoImageSet == [none |-> TRUE]

\* A dict with no keys, and the dict {key: val} if cond holds.
EmptyInfo == [k \in {} |-> 0]

Opt(cond, key, val) == IF cond THEN key :> val ELSE EmptyInfo

\* The place-info dict ingest_place builds: a field is kept only when it
\* differs from its default (numbers are in tenths).
Distill(place) ==
    Opt(place.angle # 0, "angle", place.angle)
    @@ Opt(place.angular_size # 0, "angular_size", place.angular_size)
    @@ Opt(place.annotation # << >>, "annotation", place.annotation)
    @@ Opt(place.background_image_set # NoImageSet, "background_image_set_url",
           place.background_image_set.url)
    @@ Opt(place.classification # None, "classification", place.classification)
    @@ Opt(place.constellation # None, "constellation", place.constellation)
    @@ ("data_set_type" :> place.data_set_type)
    @@ Opt(place.dec_deg # 0, "dec_deg", place.dec_deg)
    @@ Opt(place.description # << >>, "description", place.description)
    @@ Opt(place.distance # 0, "distance", place.distance)
    @@ Opt(place.dome_alt # 0, "dome_alt", place.dome_alt)
    @@ Opt(place.dome_az # 0, "dome_az", place.dome_az)
    @@ Opt(place.foreground_image_set # NoImageSet, "foreground_image_set_url",
           place.foreground_image_set.url)
    @@ Opt(place.image_set # NoImageSet, "image_set_url", place.image_set.url)
    @@ Opt(place.latitude # 0, "latitude", place.latitude)
    @@ Opt(place.longitude # 0, "longitude", place.longitude)
    @@ Opt(place.magnitude # 0, "magnitude", place.magnitude)
    @@ Opt(place.msr_community_id # 0, "msr_community_id", place.msr_community_id)
    @@ Opt(place.msr_component_id # 0, "msr_component_id", place.msr_component_id)
    @@ ("name" :> place.name)
    @@ Opt(place.opacity # 1000, "opacity", place.opacity)
    @@ Opt(place.permission # 0, "permission", place.permission)
    @@ Opt(place.ra_hr # 0, "ra_hr", place.ra_hr)
    @@ Opt(place.rotation_deg # 0, "rotation_deg", place.rotation_deg)
    @@ Opt(place.thumbnail # << >>, "thumbnail", place.thumbnail)
    @@ Opt(place.zoom_level # 0, "zoom_level", place.zoom_level)

\* idb.add_imageset for each imageset the place carries, in the order
\* image_set, foreground_image_set, background_image_set.
RECURSIVE AddAll(_, _)
AddAll(byurl, imgsets) ==
    IF imgsets = << >> THEN byurl
    ELSE AddAll(AddImageset(byurl, imgsets[1]).by_url, Tail(imgsets))

PlaceImagesets(place) ==
    (IF place.image_set # NoImageSet THEN << place.image_set >> ELSE << >>)
    \o (IF place.foreground_image_set # NoImageSet
        THEN << place.foreground_image_set >> ELSE << >>)
    \o (IF place.background_image_set # NoImageSet
        THEN << place.background_image_set >> ELSE << >>)

\* ingest_place
IngestPlace(place, byurl, infs) ==
    [by_url |-> AddAll(byurl, PlaceImagesets(place)),
     infos |-> Append(infs, Distill(place))]

\* The decimal digits of n >= 0.
RECURSIVE Digits(_)
Digits(n) ==
    IF n < 10 THEN << Chr(48 + n) >>
    ELSE Digits(n \div 10) \o << Chr(48 + (n % 10)) >>

Zeros(n) == [i \in 1..n |-> "0"]

\* format(n, "0<width>d"): the sign, then zeros up to the width, then the digits.
FormatD0(n, width) ==
    LET sign == IF n < 0 THEN << "-" >> ELSE << >>
        digits == Digits(IF n < 0 THEN -n ELSE n)
    IN  sign \o Zeros(width - Len(sign) - Len(digits)) \o digits

\* math.floor of a number given in tenths.
Floor(tenths) == tenths \div 10

\* int(math.floor(ra)) % 24
RaBin(ra_hr) == Floor(ra_hr) % 24

\* The bin as it would be if the division rounded toward zero.
LonBinTruncating(longitude) ==
    IF Floor(longitude) < 0 THEN -(((-Floor(longitude)) \div 10) * 10)
    ELSE (Floor(longitude) \div 10) * 10

\* (int(math.floor(lon)) // 10) * 10
LonBin(longitude) == (Floor(longitude) \div 10) * 10

\* The partition key of one place-info dict.
PlaceKey(info) ==
    LET k1 == << info["data_set_type"] >>
        k2 == IF "ra_hr" \in DOMAIN info
              THEN Append(k1, <<"r", "a">> \o FormatD0(RaBin(info["ra_hr"]), 2))
              ELSE k1
        k3 == IF "longitude" \in DOMAIN info
              THEN Append(k2, <<"l", "o", "n">> \o FormatD0(LonBin(info["longitude"]), 3))
              ELSE k2
    IN  Lower(Join(k3, <<"_">>))

RECURSIVE GroupPlaces(_, _)
GroupPlaces(infs, bykey) ==
    IF infs = << >> THEN bykey
    ELSE GroupPlaces(Tail(infs),
                     SetDefaultAppend(bykey, PlaceKey(infs[1]), infs[1]))

\* The elements of a sort key: a str or a number.
Str(s) == [t |-> "str", s |-> s, n |-> 0]

Num(n) == [t |-> "num", s |-> << >>, n |-> n]

\* k += u for a str u: the list is extended by the characters of u.
Chars(u) == [i \in 1..Len(u) |-> Str(<< u[i] >>)]

UrlPart(info, field) ==
    IF field \in DOMAIN info THEN Chars(info[field]) ELSE << >>

\* sortkey(info): the tuple, or the KeyError of info["ra_hr"] or
\* info["longitude"].
SortKey(info) ==
    LET urls == UrlPart(info, "foreground_image_set_url")
                \o UrlPart(info, "image_set_url")
                \o UrlPart(info, "background_image_set_url")
        dec == "dec_deg" \in DOMAIN info
        lat == "latitude" \in DOMAIN info
    IN  IF \/ dec /\ "ra_hr" \notin DOMAIN info
           \/ lat /\ "longitude" \notin DOMAIN info
        THEN [err |-> "KeyError", k |-> << >>]
        ELSE [err |-> "none",
              k |-> urls
                    \o (IF dec THEN << Num(info["dec_deg"]), Num(info["ra_hr"]) >>
                        ELSE << >>)
                    \o (IF lat THEN << Num(info["latitude"]), Num(info["longitude"]) >>
                        ELSE << >>)
                    \o << Str(info["name"]) >>]

\* x < y on two elements: "T", "F", or "E" for the TypeError of a str
\* compared with a number.
ElemLt(x, y) ==
    IF x.t # y.t THEN "E"
    ELSE IF x.t = "str" THEN (IF StrLess(x.s, y.s) THEN "T" ELSE "F")
    ELSE (IF x.n < y.n THEN "T" ELSE "F")

\* a < b on two tuples: the first index where they differ decides, a
\* proper prefix is smaller.
TupleLt(a, b) ==
    LET m == IF Len(a) < Len(b) THEN Len(a) ELSE Len(b)
        diff == { i \in 1..m : a[i] # b[i] }
    IN  IF diff = {} THEN (IF Len(a) < Len(b) THEN "T" ELSE "F")
        ELSE ElemLt(a[CHOOSE i \in diff : \A j \in diff : i <= j],
                    b[CHOOSE i \in diff : \A j \in diff : i <= j])

\* list.sort on fewer than 64 items: count_run finds the run the list
\* starts with (a strictly descending one is reversed), binarysort inserts
\* the rest.  The items are [k |-> key, v |-> value]; n is the run so far.
RECURSIVE RunAscending(_, _)
RunAscending(s, n) ==
    IF n = Len(s) THEN [n |-> n, desc |-> FALSE, err |-> FALSE]
    ELSE LET c == TupleLt(s[n + 1].k, s[n].k)
         IN  IF c = "E" THEN [n |-> n, desc |-> FALSE, err |-> TRUE]
             ELSE IF c = "T" THEN [n |-> n, desc |-> FALSE, err |-> FALSE]
             ELSE RunAscending(s, n + 1)

RECURSIVE RunDescending(_, _)
RunDescending(s, n) ==
    IF n = Len(s) THEN [n |-> n, desc |-> TRUE, err |-> FALSE]
    ELSE LET c == TupleLt(s[n + 1].k, s[n].k)
         IN  IF c = "E" THEN [n |-> n, desc |-> TRUE, err |-> TRUE]
             ELSE IF c = "F" THEN [n |-> n, desc |-> TRUE, err |-> FALSE]
             ELSE RunDescending(s, n + 1)

CountRun(s) ==
    LET c == TupleLt(s[2].k, s[1].k)
    IN  IF c = "E" THEN [n |-> 1, desc |-> FALSE, err |-> TRUE]
        ELSE IF c = "T" THEN RunDescending(s, 2)
        ELSE RunAscending(s, 2)

Reverse(s) == [i \in 1..Len(s) |-> s[Len(s) + 1 - i]]

\* Where binarysort puts pivot among s[1..r]: the number of items that stay
\* before it, or -1 when a comparison raises.
RECURSIVE BinPos(_, _, _, _)
BinPos(s, pivot, l, r) ==
    IF l >= r THEN l
    ELSE LET p == l + ((r - l) \div 2)
             c == TupleLt(pivot.k, s[p + 1].k)
         IN  IF c = "E" THEN -1
             ELSE IF c = "T" THEN BinPos(s, pivot, l, p)
             ELSE BinPos(s, pivot, p + 1, r)

RECURSIVE BinarySort(_, _)
BinarySort(s, start) ==
    IF start >= Len(s) THEN [err |-> FALSE, s |-> s]
    ELSE LET pivot == s[start + 1]
             pos == BinPos(s, pivot, 0, start)
         IN  IF pos = -1 THEN [err |-> TRUE, s |-> s]
             ELSE BinarySort(SubSeq(s, 1, pos) \o << pivot >>
                                \o SubSeq(s, pos + 1, start)
                                \o SubSeq(s, start + 2, Len(s)),
                             start + 1)

\* The sort as it would be if it left the list in the order it came.
ListSortKeepsOrder(s) == [err |-> FALSE, s |-> s]

ListSort(s) ==
    IF Len(s) < 2 THEN [err |-> FALSE, s |-> s]
    ELSE LET run == CountRun(s)
         IN  IF run.err THEN [err |-> TRUE, s |-> s]
             ELSE BinarySort(IF run.desc
                             THEN Reverse(SubSeq(s, 1, run.n))
                                  \o SubSeq(s, run.n + 1, Len(s))
                             ELSE s,
                             run.n)

\* sorted(infos, key=sortkey): every key is computed first, then the list
\* is sorted; the result, or the exception.
SortedInfos(infs) ==
    IF \E i \in 1..Len(infs) : SortKey(infs[i]).err # "none"
    THEN [err |-> "KeyError", s |-> << >>]
    ELSE LET r == ListSort([i \in 1..Len(infs) |->
                              [k |-> SortKey(infs[i]).k, v |-> infs[i]]])
         IN  IF r.err THEN [err |-> "TypeError", s |-> << >>]
             ELSE [err |-> "none", s |-> [i \in 1..Len(r.s) |-> r.s[i].v]]

YmlExt == <<".", "y", "m", "l">>

\* The shard files PlaceDatabase.rewrite writes, in the order it writes
\* them, each with the exception its sort raises.
PlaceFiles(infs) ==
    LET bykey == GroupPlaces(infs, << >>)
    IN  [i \in 1..Len(bykey) |->
            [name |-> bykey[i].key \o YmlExt,
             err |-> SortedInfos(bykey[i].members).err,
             body |-> SortedInfos(bykey[i].members).s]]

\* PlaceDatabase.rewrite
PdbRewrite(infs, fs, fail) == AtomicSwap(fs, PlaceFiles(infs), fail)

----------------------------------------------------------------------------
(* The place store as its callers see it                                   *)

BasePlace ==
    [image_set |-> NoImageSet, foreground_image_set |-> NoImageSet,
     background_image_set |-> NoImageSet, angle |-> 0, angular_size |-> 0,
     annotation |-> << >>, classification |-> None, constellation |-> None,
     data_set_type |-> Sky, dec_deg |-> 0, description |-> << >>,
     distance |-> 0, dome_alt |-> 0, dome_az |-> 0, latitude |-> 0,
     longitude |-> 0, magnitude |-> 0, msr_community_id |-> 0,
     msr_component_id |-> 0, name |-> << >>, opacity |-> 1000,
     permission |-> 0, ra_hr |-> 0, rotation_deg |-> 0, thumbnail |-> << >>,
     zoom_level |-> 0]

PlaceImg(u) ==
    [url |-> u, data_set_type |-> Sky, reference_frame |-> None,
     band_pass |-> Visible]

\* The places a caller may ingest.  Numbers are in tenths: dec_deg 100 is
\* 10.0 degrees, ra_hr 15 is 1.5 hours.
PlaceList ==
    << [BasePlace EXCEPT !.name = <<"c">>,
                         !.foreground_image_set = PlaceImg(<<"a">>)],
       [BasePlace EXCEPT !.name = <<"b">>,
                         !.foreground_image_set = PlaceImg(<<"a", "b">>)],
       [BasePlace EXCEPT !.name = <<"m">>],
       [BasePlace EXCEPT !.name = <<"m">>, !.angle = 15],
       [BasePlace EXCEPT !.name = <<"d">>, !.dec_deg = 100],
       [BasePlace EXCEPT !.name = <<"k">>, !.dec_deg = -50, !.ra_hr = 15,
                         !.image_set = PlaceImg(<<"a">>)],
       [BasePlace EXCEPT !.name = <<"k", "2">>, !.dec_deg = -50, !.ra_hr = 12,
                         !.image_set = PlaceImg(<<"a">>)],
       [BasePlace EXCEPT !.name = <<"g">>, !.dec_deg = 20, !.ra_hr = 12,
                         !.image_set = PlaceImg(<<"a", "b">>)],
       [BasePlace EXCEPT !.name = <<"j">>, !.dec_deg = 20, !.ra_hr = 18],
       [BasePlace EXCEPT !.name = <<"l">>, !.data_set_type = Earth,
                         !.latitude = 100, !.longitude = -50,
                         !.background_image_set = PlaceImg(<<"B">>)],
       [BasePlace EXCEPT !.name = <<"e">>, !.data_set_type = Earth,
                         !.latitude = 300] >>

Places == { PlaceList[i] : i \in 1..Len(PlaceList) }

\* The url of the last imageset add_imageset dropped, or None.
RECURSIVE LastWarning(_, _, _)
LastWarning(byurl, imgsets, w) ==
    IF imgsets = << >> THEN w
    ELSE LastWarning(AddImageset(byurl, imgsets[1]).by_url, Tail(imgsets),
                     IF AddImageset(byurl, imgsets[1]).warning # None
                     THEN AddImageset(byurl, imgsets[1]).warning ELSE w)

RECURSIVE RecordFirst(_, _)
RecordFirst(f, imgsets) ==
    IF imgsets = << >> THEN f
    ELSE RecordFirst(IF imgsets[1].url \in DOMAIN f THEN f
                     ELSE f @@ (imgsets[1].url :> imgsets[1]),
                     Tail(imgsets))

CallIngestPlace ==
    \E place \in Places :
        LET r == IngestPlace(place, by_url, infos)
        IN  /\ Len(infos) < MaxPlaces
            /\ by_url' = r.by_url
            /\ infos' = r.infos
            /\ first' = RecordFirst(first, PlaceImagesets(place))
            /\ out' = [op |-> "ingest_place", result |-> "ok",
                       warning |-> LastWarning(by_url, PlaceImagesets(place), None),
                       before |-> pdb_fs.dir, after_rewrite |-> FALSE]
            /\ UNCHANGED <<idb_fs, pdb_fs, keyVars, xmlVars, toolVars>>

CallPdbRewrite ==
    \E fail \in Failures(PlaceFiles(infos)) :
        LET r == PdbRewrite(infos, pdb_fs, fail)
        IN  /\ pdb_fs' = r.fs
            /\ out' = [op |-> "pdb_rewrite", result |-> r.result,
                       warning |-> None, before |-> pdb_fs.dir,
                       after_rewrite |-> (out.op = "pdb_rewrite" /\ out.result = "ok")]
            /\ UNCHANGED <<by_url, first, infos, idb_fs, keyVars, xmlVars, toolVars>>

NextPlaces == CallIngestPlace \/ CallPdbRewrite

SpecPlaces == Init /\ [][NextPlaces]_vars

----------------------------------------------------------------------------
(* The place partition key on its own, over a range of coordinates         *)

MaxRaTenths == 260

MaxLonTenths == 1100

\* ra_hr over the whole range with a few longitudes, and longitude over the
\* whole range with a few ra_hr (0 is the default, which ingest_place drops).
KeyInputs ==
    { [BasePlace EXCEPT !.data_set_type = d, !.ra_hr = ra, !.longitude = lon] :
        d \in {Sky, Earth},
        ra \in (-MaxRaTenths)..MaxRaTenths,
        lon \in {0, -50} }
    \cup
    { [BasePlace EXCEPT !.ra_hr = ra, !.longitude = lon] :
        ra \in {0, 239, 245},
        lon \in (-MaxLonTenths)..MaxLonTenths }

InitKeys ==
    /\ StoreInit /\ XmlIdle /\ ToolIdle
    /\ key_in \in { Distill(p) : p \in KeyInputs }
    /\ key_out = None

ComputePlaceKey ==
    /\ key_out = None
    /\ key_out' = PlaceKey(key_in)
    /\ UNCHANGED <<key_in, storeVars, xmlVars, toolVars>>

NextKeys == ComputePlaceKey

SpecKeys == InitKeys /\ [][NextKeys]_vars

----------------------------------------------------------------------------
(* prettify                                                                *)

Whitespace == {" ", "\t"}

IsSpace(c) == c \in Whitespace

\* [-_a-zA-Z0-9] and \w
IsAlnum(c) ==
    /\ c \in DOMAIN CodePoint
    /\ \/ Ord(c) \in 48..57
       \/ Ord(c) \in 65..90
       \/ Ord(c) \in 97..122

IsTagChar(c) == IsAlnum(c) \/ c \in {"-", "_"}

IsWordChar(c) == IsAlnum(c) \/ c = "_"

\* The index after the longest run, from index i, of characters of a class.
RECURSIVE EndOfSpaces(_, _)
EndOfSpaces(s, i) ==
    IF i <= Len(s) /\ IsSpace(s[i]) THEN EndOfSpaces(s, i + 1) ELSE i

RECURSIVE EndOfTagChars(_, _)
EndOfTagChars(s, i) ==
    IF i <= Len(s) /\ IsTagChar(s[i]) THEN EndOfTagChars(s, i + 1) ELSE i

RECURSIVE EndOfWordChars(_, _)
EndOfWordChars(s, i) ==
    IF i <= Len(s) /\ IsWordChar(s[i]) THEN EndOfWordChars(s, i + 1) ELSE i

RECURSIVE EndOfNonQuotes(_, _)
EndOfNonQuotes(s, i) ==
    IF i <= Len(s) /\ s[i] # "\"" THEN EndOfNonQuotes(s, i + 1) ELSE i

At(s, i) == IF i >= 1 /\ i <= Len(s) THEN s[i] ELSE "end"

\* START_ATTR_TAG_RE.match(line): ^(\s*)<([-_a-zA-Z0-9]+)\s
MatchStartAttrTag(line) ==
    LET lt == EndOfSpaces(line, 1)
        sp == EndOfTagChars(line, lt + 1)
    IN  IF At(line, lt) = "<" /\ sp > lt + 1 /\ IsSpace(At(line, sp))
        THEN [ok |-> TRUE, indent |-> SubSeq(line, 1, lt - 1),
              tag |-> SubSeq(line, lt + 1, sp - 1), end |-> sp]
        ELSE [ok |-> FALSE, indent |-> << >>, tag |-> << >>, end |-> 0]

\* ATTR_RE.match(text): ^\s*(\w+)="([^"]*)"
MatchAttr(text) ==
    LET n == EndOfSpaces(text, 1)
        eq == EndOfWordChars(text, n)
        q == EndOfNonQuotes(text, eq + 2)
    IN  IF eq > n /\ At(text, eq) = "=" /\ At(text, eq + 1) = "\""
           /\ At(text, q) = "\""
        THEN [ok |-> TRUE, name |-> SubSeq(text, n, eq - 1),
              value |-> SubSeq(text, eq + 2, q - 1), end |-> q]
        ELSE [ok |-> FALSE, name |-> << >>, value |-> << >>, end |-> 0]

\* ATTRS_DONE_RE.match(text): ^\s*(/?)>$
MatchAttrsDone(text) ==
    LET n == EndOfSpaces(text, 1)
    IN  IF At(text, n) = "/" /\ At(text, n + 1) = ">" /\ n + 1 = Len(text)
        THEN [ok |-> TRUE, slash |-> TRUE]
        ELSE IF At(text, n) = ">" /\ n = Len(text)
        THEN [ok |-> TRUE, slash |-> FALSE]
        ELSE [ok |-> FALSE, slash |-> FALSE]

RECURSIVE RStrip(_)
RStrip(s) ==
    IF s # << >> /\ IsSpace(s[Len(s)]) THEN RStrip(SubSeq(s, 1, Len(s) - 1))
    ELSE s

HasAttr(attrs, name) == \E i \in 1..Len(attrs) : attrs[i].name = name

\* The while loop that chomps the attributes into the dict attrs (here in
\* insertion order); either assert ends it with an AssertionError.
RECURSIVE ChompAttrs(_, _)
ChompAttrs(text, attrs) ==
    IF MatchAttrsDone(text).ok
    THEN [err |-> "none", attrs |-> attrs, self_ending |-> MatchAttrsDone(text).slash]
    ELSE IF ~MatchAttr(text).ok \/ HasAttr(attrs, MatchAttr(text).name)
    THEN [err |-> "AssertionError", attrs |-> attrs, self_ending |-> FALSE]
    ELSE ChompAttrs(SubSeq(text, MatchAttr(text).end + 1, Len(text)),
                    Append(attrs, [name |-> MatchAttr(text).name,
                                   value |-> MatchAttr(text).value]))

RECURSIVE InsertByName(_, _)
InsertByName(s, x) ==
    IF s = << >> THEN << x >>
    ELSE IF StrLess(x.name, s[1].name) THEN << x >> \o s
    ELSE << s[1] >> \o InsertByName(Tail(s), x)

\* The attributes as they would be printed without sorting.
AttrsInInputOrder(attrs) == attrs

\* sorted(attrs.items()): the names are distinct, so the name decides.
RECURSIVE SortedAttrs(_)
SortedAttrs(attrs) ==
    IF attrs = << >> THEN << >>
    ELSE InsertByName(SortedAttrs(SubSeq(attrs, 1, Len(attrs) - 1)),
                      attrs[Len(attrs)])

\* The body of the for loop: the lines printed for one line of the text.
PrettifyLine(line) ==
    LET m == MatchStartAttrTag(line)
    IN  IF ~m.ok THEN [err |-> "none", lines |-> << line >>]
        ELSE
        LET c == ChompAttrs(RStrip(SubSeq(line, m.end + 1, Len(line))), << >>)
            sorted == SortedAttrs(c.attrs)
        IN  IF c.err # "none" THEN [err |-> c.err, lines |-> << >>]
            ELSE [err |-> "none",
                  lines |->
                    << m.indent \o << "<" >> \o m.tag >>
                    \o [i \in 1..Len(sorted) |->
                          m.indent \o << " ", " " >> \o sorted[i].name
                          \o << "=", "\"" >> \o sorted[i].value \o << "\"" >>]
                    \o << IF c.self_ending
                          THEN m.indent \o << ">", "<", "/" >> \o m.tag \o << ">" >>
                          ELSE m.indent \o << ">" >> >>]

\* prettify on the lines of the serialized text: what reached the stream,
\* and the exception if one ended the loop.
RECURSIVE Prettify(_)
Prettify(text) ==
    IF text = << >> THEN [err |-> "none", lines |-> << >>]
    ELSE LET head == PrettifyLine(text[1])
             rest == Prettify(Tail(text))
         IN  IF head.err # "none" THEN head
             ELSE [err |-> rest.err, lines |-> head.lines \o rest.lines]

\* The text ElementTree writes after indent_xml, line by line: the
\* declaration, then one line per tag or run of text.
XmlDecl ==
    << "<", "?", "x", "m", "l", " ", "v", "e", "r", "s", "i", "o", "n", "=",
       "'", "1", ".", "0", "'", " ", "e", "n", "c", "o", "d", "i", "n", "g",
       "=", "'", "U", "T", "F", "-", "8", "'", "?", ">" >>

Spaces(n) == [i \in 1..n |-> " "]

RECURSIVE AttrText(_)
AttrText(attrs) ==
    IF attrs = << >> THEN << >>
    ELSE << " " >> \o attrs[1].name \o << "=", "\"" >> \o attrs[1].value
         \o << "\"" >> \o AttrText(Tail(attrs))

SerializeLine(e) ==
    CASE e.kind = "open" ->
            Spaces(e.indent) \o << "<" >> \o e.tag \o AttrText(e.attrs) \o << ">" >>
      [] e.kind = "empty" ->
            Spaces(e.indent) \o << "<" >> \o e.tag \o AttrText(e.attrs)
            \o << " ", "/", ">" >>
      [] e.kind = "text" ->
            Spaces(e.indent) \o << "<" >> \o e.tag \o AttrText(e.attrs) \o << ">" >>
            \o e.text \o << "<", "/" >> \o e.tag \o << ">" >>
      [] e.kind = "close" ->
            Spaces(e.indent) \o << "<", "/" >> \o e.tag \o << ">" >>
      [] OTHER -> Spaces(e.indent) \o e.text

Serialize(e) == << XmlDecl, SerializeLine(e) >>

MaxAttrs == 3

AttrNameList == << <<"b">>, <<"a">>, <<"Z">>, <<"a", "_", "1">>, <<"B", "b">> >>

AttrNames == { AttrNameList[i] : i \in 1..MaxAttrs }

AttrValues == { << >>, <<"1">>, <<"a", " ", "/">> }

\* The attribute lists of one tag: distinct names, in any order.
AttrLists ==
    { a \in UNION { [1..n -> [name : AttrNames, value : AttrValues]] :
                      n \in 0..MaxAttrs } :
        \A i, j \in 1..Len(a) : a[i].name = a[j].name => i = j }

XmlTags == { <<"a">>, <<"T", "-", "1">> }

XmlLines ==
    { [kind |-> k, indent |-> n, tag |-> t, attrs |-> a,
       text |-> IF k = "text" THEN <<"h", "i", " ", "x">> ELSE << >>] :
        k \in {"open", "empty", "text"}, n \in {0, 2}, t \in XmlTags,
        a \in AttrLists }
    \cup
    { [kind |-> "close", indent |-> n, tag |-> t, attrs |-> << >>, text |-> << >>] :
        n \in {0, 2}, t \in XmlTags }
    \cup
    { [kind |-> "chars", indent |-> n, tag |-> << >>, attrs |-> << >>,
       text |-> <<"h", "i", " ", "x">>] : n \in {0, 2} }

InitPretty ==
    /\ StoreInit /\ KeysIdle /\ ToolIdle
    /\ xml_in \in XmlLines
    /\ printed = [err |-> "none", lines |-> << >>]

CallPrettify ==
    /\ printed.lines = << >>
    /\ printed' = Prettify(Serialize(xml_in))
    /\ UNCHANGED <<xml_in, storeVars, keyVars, toolVars>>

NextPretty == CallPrettify

SpecPretty == InitPretty /\ [][NextPretty]_vars

----------------------------------------------------------------------------
(* The command line tool                                                   *)

\* One command line word.  settings.subcommand is a word or None.
Tok(word) == << word >>

\* The names the subparsers were registered under.
ParserChoices == { Tok("format_imagesets"), Tok("ingest"), Tok("prettify") }

\* The positional arguments a subparser requires.
Positionals(sub) ==
    IF sub \in { Tok("ingest"), Tok("prettify") } THEN 1 ELSE 0

\* parser.parse_args(): no word leaves subcommand None; a word that is not
\* a registered name, or a wrong number of positionals, ends the process
\* in parser.error (exit code 2).
ParseArgs(args) ==
    IF args = << >> THEN [ok |-> TRUE, subcommand |-> None]
    ELSE IF \/ Tok(args[1]) \notin ParserChoices
            \/ Len(args) - 1 # Positionals(Tok(args[1]))
    THEN [ok |-> FALSE, subcommand |-> None]
    ELSE [ok |-> TRUE, subcommand |-> Tok(args[1])]

UsageNoSubcommand == << "usage error:", "you must specify a subcommand" >>

UsageUnknownSubcommand == << "usage error:", "unknown subcommand" >>

ArgparseError == << "argparse", "error" >>

Traceback(exc) == << "Traceback", exc >>

\* What a run leaves: the exit status, the last message on the error
\* stream, the stores it built, the directories, the lines prettify wrote.
Ran(code, msg, byurl, infs, disk, lines) ==
    [exit_code |-> code, stderr |-> msg, by_url |-> byurl, infos |-> infs,
     idb_fs |-> disk.idb, pdb_fs |-> disk.pdb, printed |-> lines]

NothingPrinted == [err |-> "none", lines |-> << >>]

\* die(text, prefix): the message, then sys.exit(1).
Die(msg, disk) == Ran(1, msg, << >>, << >>, disk, NothingPrinted)

\* The files db_dir.glob yields, in the order of the file system (the
\* catalogs here hold at most one file each); none if there is no directory.
RECURSIVE GlobFrom(_, _)
GlobFrom(files, names) ==
    IF names = {} THEN << >>
    ELSE LET n == CHOOSE x \in names : TRUE
         IN  << files[n] >> \o GlobFrom(files, names \ {n})

Glob(d) == IF d.exists THEN GlobFrom(d.files, DOMAIN d.files) ELSE << >>

\* ImagesetDatabase.__init__: every child of every shard goes through
\* add_imageset.
RECURSIVE LoadImagesets(_, _)
LoadImagesets(byurl, shards) ==
    IF shards = << >> THEN byurl
    ELSE LoadImagesets(AddAll(byurl, shards[1].children), Tail(shards))

\* PlaceDatabase.__init__: the documents of every shard, appended.
RECURSIVE LoadPlaces(_, _)
LoadPlaces(infs, shards) ==
    IF shards = << >> THEN infs
    ELSE LoadPlaces(infs \o shards[1], Tail(shards))

\* An exception nothing catches ends the process with a traceback and 1.
Ended(result, byurl, infs, disk, lines) ==
    IF result = "ok" \/ result = "none"
    THEN Ran(0, None, byurl, infs, disk, lines)
    ELSE Ran(1, Traceback(result), byurl, infs, disk, lines)

\* idb.rewrite() on the store as loaded.
RewriteLoaded(byurl, disk, r) ==
    Ended(r.result, byurl, << >>, [disk EXCEPT !.idb = r.fs], NothingPrinted)

FormatLoaded(byurl, disk) ==
    RewriteLoaded(byurl, disk, IdbRewrite(byurl, disk.idb, NoFail))

\* do_format_imagesets
DoFormatImagesets(disk) ==
    FormatLoaded(LoadImagesets(<< >>, Glob(disk.idb.dir)), disk)

\* One item of the walk: an ImageSet is added, a Place is ingested, any
\* other node is passed over.
WalkItem(item, st) ==
    IF item.kind = "ImageSet"
    THEN [by_url |-> AddImageset(st.by_url, item.item).by_url, infos |-> st.infos]
    ELSE IF item.kind = "Place"
    THEN IngestPlace(item.item, st.by_url, st.infos)
    ELSE st

\* The loop over f.walk(), on the two stores as loaded.
RECURSIVE Walk(_, _)
Walk(doc, st) ==
    IF doc = << >> THEN st ELSE Walk(Tail(doc), WalkItem(doc[1], st))

\* idb.rewrite() then pdb.rewrite(): an exception of the first ends the
\* process before the second is called.
RewriteBoth(w, disk, ri, rp) ==
    IF ri.result # "ok"
    THEN Ended(ri.result, w.by_url, w.infos, [disk EXCEPT !.idb = ri.fs],
               NothingPrinted)
    ELSE Ended(rp.result, w.by_url, w.infos, [idb |-> ri.fs, pdb |-> rp.fs],
               NothingPrinted)

IngestWalked(w, disk) ==
    RewriteBoth(w, disk, IdbRewrite(w.by_url, disk.idb, NoFail),
                PdbRewrite(w.infos, disk.pdb, NoFail))

\* do_ingest: both stores are loaded, the walk feeds them, then the rewrites.
DoIngest(disk, doc) ==
    IngestWalked(Walk(doc, [by_url |-> LoadImagesets(<< >>, Glob(disk.idb.dir)),
                            infos |-> LoadPlaces(<< >>, Glob(disk.pdb.dir))]),
                 disk)

Prettified(disk, p) == Ended(p.err, << >>, << >>, disk, p)

\* do_prettify
DoPrettify(disk, elem) == Prettified(disk, Prettify(Serialize(elem)))

\* The if/elif chain of entrypoint.
Dispatch(subcommand, disk, doc, elem) ==
    IF subcommand = None THEN Die(UsageNoSubcommand, disk)
    ELSE IF subcommand = Tok("format-imagesets") THEN DoFormatImagesets(disk)
    ELSE IF subcommand = Tok("ingest") THEN DoIngest(disk, doc)
    ELSE IF subcommand = Tok("prettify") THEN DoPrettify(disk, elem)
    ELSE Die(UsageUnknownSubcommand, disk)

\* entrypoint
Entrypoint(args, disk, doc, elem) ==
    LET settings == ParseArgs(args)
    IN  IF ~settings.ok
        THEN Ran(2, ArgparseError, << >>, << >>, disk, NothingPrinted)
        ELSE Dispatch(settings.subcommand, disk, doc, elem)

MaxWalk == 3

ImageSetNode(imgset) == [kind |-> "ImageSet", item |-> imgset]

PlaceNode(place) == [kind |-> "Place", item |-> place]

FolderNode == [kind |-> "Folder", item |-> NoImageSet]

\* The nodes of the documents: imagesets that share a url and differ, an
\* imageset a place carries too, places with equal ordering keys, places
\* whose keys do not compare, a place whose key cannot be built, a folder.
WalkNodes ==
    { ImageSetNode(PlaceImg(<<"a">>)),
      ImageSetNode([PlaceImg(<<"a">>) EXCEPT !.reference_frame = Mars,
                                             !.band_pass = None]),
      PlaceNode(PlaceList[1]), PlaceNode(PlaceList[3]), PlaceNode(PlaceList[4]),
      PlaceNode(PlaceList[5]), PlaceNode(PlaceList[6]), PlaceNode(PlaceList[7]),
      PlaceNode(PlaceList[8]),
      FolderNode }

Documents == UNION { [1..n -> WalkNodes] : n \in 0..MaxWalk }

Reordered(doc) ==
    { [i \in 1..Len(doc) |-> doc[p[i]]] : p \in Permutations(1..Len(doc)) }

\* The catalogs the tool starts from: empty directories; the directories
\* two rewrites left; a catalog whose last rewrite stopped before the
\* renames, imagesets.new still there.
Catalogs ==
    { [idb |-> CleanFs, pdb |-> CleanFs],
      [idb |-> IdbRewrite(<< PlaceImg(<<"a">>) >>, CleanFs, NoFail).fs,
       pdb |-> PdbRewrite(<< Distill(PlaceList[3]) >>, CleanFs, NoFail).fs],
      [idb |-> IdbRewrite(<< PlaceImg(<<"b">>) >>, CleanFs,
                          [step |-> "rename_old", n |-> 0]).fs,
       pdb |-> CleanFs] }

CommandLines ==
    { << >>, << "format_imagesets" >>, << "format-imagesets" >>,
      << "ingest", "catalog.wtml" >>, << "ingest" >>,
      << "prettify", "doc.xml" >>, << "reshard" >> }

XmlFiles ==
    { x \in XmlLines : x.indent = 0 /\ x.tag = <<"a">> /\ Len(x.attrs) <= 1
                       /\ \A i \in 1..Len(x.attrs) : x.attrs[i].value = <<"1">> }

InitTool ==
    /\ KeysIdle
    /\ argv \in CommandLines
    /\ disk0 \in Catalogs
    /\ wtml \in (IF argv = << "ingest", "catalog.wtml" >> THEN Documents ELSE { << >> })
    /\ wtml_b \in Reordered(wtml)
    /\ xml_in \in (IF argv = << "prettify", "doc.xml" >> THEN XmlFiles
                   ELSE { [kind |-> "none"] })
    /\ printed = NothingPrinted
    /\ pc = "start"
    /\ exit_code = 0
    /\ stderr = None
    /\ snap_a = [idb |-> NoDir, pdb |-> NoDir, exit_code |-> 0]
    /\ by_url = << >>
    /\ infos = << >>
    /\ idb_fs = disk0.idb
    /\ pdb_fs = disk0.pdb
    /\ out = [op |-> "init", result |-> "ok", warning |-> None,
              before |-> disk0.idb.dir, after_rewrite |-> FALSE]
    /\ first = [u \in {} |-> None]

Finish(r) ==
    /\ exit_code' = r.exit_code
    /\ stderr' = r.stderr
    /\ by_url' = r.by_url
    /\ infos' = r.infos
    /\ idb_fs' = r.idb_fs
    /\ pdb_fs' = r.pdb_fs
    /\ printed' = r.printed

\* The tool runs on the catalog with the document as given.
RunFirst ==
    /\ pc = "start"
    /\ Finish(Entrypoint(argv, disk0, wtml, xml_in))
    /\ snap_a' = [idb |-> idb_fs'.dir, pdb |-> pdb_fs'.dir,
                  exit_code |-> exit_code']
    /\ pc' = "ran_a"
    /\ UNCHANGED <<argv, wtml, wtml_b, disk0, xml_in, out, first, keyVars>>

\* The tool runs again on a copy of the catalog as it was, the document
\* yielding its nodes in the other order.
RunSecond ==
    /\ pc = "ran_a"
    /\ Finish(Entrypoint(argv, disk0, wtml_b, xml_in))
    /\ pc' = "ran_b"
    /\ UNCHANGED <<argv, wtml, wtml_b, disk0, xml_in, out, first, keyVars,
                   snap_a>>

NextTool == RunFirst \/ RunSecond

SpecTool == InitTool /\ [][NextTool]_vars

----------------------------------------------------------------------------
(* Properties of the imageset store, checked under Spec                    *)

Held == { by_url[i] : i \in 1..Len(by_url) }

\* C1: whatever add_imageset calls were made, the store holds exactly one
\* record per distinct url added, the first imageset added with that url;
\* adding a url that is already a key leaves by_url unchanged, emits a
\* warning and raises no error.
C1_OnePerUrl ==
    /\ \A i, j \in 1..Len(by_url) : by_url[i].url = by_url[j].url => i = j
    /\ { r.url : r \in Held } = DOMAIN first
    /\ \A u \in DOMAIN first : first[u] \in Held

C1_FirstAddedWins ==
    [][ /\ C1_OnePerUrl'
        /\ (out'.op = "add_imageset" /\ first' = first)
              => /\ by_url' = by_url
                 /\ out'.warning # None
                 /\ out'.result = "ok"
        /\ (out'.op = "add_imageset" /\ first' # first)
              => /\ Len(by_url') = Len(by_url) + 1
                 /\ out'.warning = None ]_vars

\* A duplicate was just dropped from a store that holds two urls.
C1_Witness ==
    /\ out.op = "add_imageset"
    /\ out.warning # None
    /\ Len(by_url) = 2

\* C2: rewrite has no partial-success state: after the call the target
\* directory exists and holds the complete new shard set or the complete old
\* one, whichever step failed, and the call fails unless the new set is in
\* place with no sibling directory left.
C2_NoPartialSuccess ==
    out.op = "idb_rewrite" =>
        /\ idb_fs.dir.exists
        /\ \/ idb_fs.dir = DirOf(ImagesetFiles(by_url))
           \/ idb_fs.dir = out.before
        /\ out.result = "ok" => idb_fs.dir = DirOf(ImagesetFiles(by_url))

\* The partition key as section 4.1 states it.
C6_Key(r) ==
    Lower(Join(<< r.data_set_type >>
               \o (IF r.reference_frame \in {None, Sky} THEN << >>
                   ELSE << r.reference_frame >>)
               \o (IF r.band_pass = None THEN << >> ELSE << r.band_pass >>),
               <<"_">>))

C6_Count(children, r) == Cardinality({ i \in 1..Len(children) : children[i] = r })

\* C6: a successful imageset rewrite leaves one shard per distinct
\* partition key (data_set_type, the frame unless absent or "Sky", the band
\* if present, joined with '_' and lowercased); every held imageset is in
\* exactly one shard, that of its key; no shard is empty; each shard is in
\* ascending url order.
C6_ShardsPartitionTheStore ==
    (out.op = "idb_rewrite" /\ out.result = "ok") =>
        LET files == idb_fs.dir.files IN
        /\ DOMAIN files = { C6_Key(r) \o XmlExt : r \in Held }
        /\ \A n \in DOMAIN files :
              /\ files[n].children # << >>
              /\ files[n].name \o XmlExt = n
              /\ \A i \in 1..Len(files[n].children) :
                    files[n].children[i] \in Held
              /\ \A i \in 1..(Len(files[n].children) - 1) :
                    StrLess(files[n].children[i].url, files[n].children[i + 1].url)
        /\ \A r \in Held : \A n \in DOMAIN files :
              C6_Count(files[n].children, r)
                  = IF n = C6_Key(r) \o XmlExt THEN 1 ELSE 0
        /\ \A r \in Held :
              (r.data_set_type = Sky /\ r.band_pass = Visible
                 /\ r.reference_frame \in {None, Sky})
              => r \in { files[<<"s", "k", "y", "_", "v", "i", "s", "i", "b",
                                  "l", "e", ".", "x", "m", "l">>].children[i] :
                           i \in 1..Len(files[<<"s", "k", "y", "_", "v", "i", "s",
                                                 "i", "b", "l", "e", ".", "x", "m",
                                                 "l">>].children) }

\* A rewrite put an imageset with the "Sky" frame and one with no frame
\* in one shard.
C6_Witness ==
    /\ out.op = "idb_rewrite"
    /\ out.result = "ok"
    /\ \E n \in DOMAIN idb_fs.dir.files :
          /\ Len(idb_fs.dir.files[n].children) = 2
          /\ idb_fs.dir.files[n].children[1].reference_frame
                # idb_fs.dir.files[n].children[2].reference_frame

\* C7: a rewrite that succeeds leaves neither imagesets.new nor
\* imagesets.old behind and can be run again at once; run again on the same
\* in-memory set with no I/O failure it succeeds and leaves the target
\* directory with the same shard files and contents as the first run.
C7_RewriteTwice ==
    (out.op = "idb_rewrite" /\ out.result = "ok") =>
        /\ ~idb_fs.new.exists
        /\ ~idb_fs.old.exists
        /\ IdbRewrite(by_url, idb_fs, NoFail).result = "ok"
        /\ IdbRewrite(by_url, idb_fs, NoFail).fs = idb_fs
        /\ out.after_rewrite => idb_fs.dir = out.before

\* The second of two successful rewrites in a row has just returned.
C7_Witness ==
    /\ out.op = "idb_rewrite"
    /\ out.result = "ok"
    /\ out.after_rewrite
    /\ Len(by_url) = 2

----------------------------------------------------------------------------
(* Properties of the place store, checked under SpecPlaces                 *)

\* The ordering key as section 4.2 states it: one url element, the first
\* present of foreground, image and background, compared as a whole string.
C4_Key(info) ==
    (IF "foreground_image_set_url" \in DOMAIN info
     THEN << Str(info["foreground_image_set_url"]) >>
     ELSE IF "image_set_url" \in DOMAIN info
     THEN << Str(info["image_set_url"]) >>
     ELSE IF "background_image_set_url" \in DOMAIN info
     THEN << Str(info["background_image_set_url"]) >>
     ELSE << >>)
    \o (IF "dec_deg" \in DOMAIN info
        THEN << Num(info["dec_deg"]), Num(info["ra_hr"]) >> ELSE << >>)
    \o (IF "latitude" \in DOMAIN info
        THEN << Num(info["latitude"]), Num(info["longitude"]) >> ELSE << >>)
    \o << Str(info["name"]) >>

\* C4: within each place shard the records are in the order of the
\* composite key (one url as a whole string, then (dec_deg, ra_hr), then
\* (latitude, longitude), then name): no record is followed by one whose
\* key is smaller.
C4_ShardsInClaimedOrder ==
    \A n \in DOMAIN pdb_fs.dir.files :
        \A i \in 1..(Len(pdb_fs.dir.files[n]) - 1) :
            TupleLt(C4_Key(pdb_fs.dir.files[n][i + 1]),
                    C4_Key(pdb_fs.dir.files[n][i])) # "T"

\* C10: for the records ingest_place produced, the ordering key reads no
\* absent field, any two keys of one shard are comparable, and the rewrite
\* raises neither KeyError nor TypeError.
C10_OrderingKeyIsTotal ==
    /\ \A i \in 1..Len(infos) : SortKey(infos[i]).err = "none"
    /\ \A i, j \in 1..Len(infos) :
          (/\ PlaceKey(infos[i]) = PlaceKey(infos[j])
           /\ SortKey(infos[i]).err = "none"
           /\ SortKey(infos[j]).err = "none")
          => TupleLt(SortKey(infos[i]).k, SortKey(infos[j]).k) # "E"
    /\ out.op = "pdb_rewrite" => out.result \notin {"KeyError", "TypeError"}

----------------------------------------------------------------------------
(* Properties of the place partition key, checked under SpecKeys           *)

\* The two digits of b in 0..99, the three of n in 0..999, and the
\* zero-padded form of a bin m: width 3, the sign taking one place.
C5_TwoDigits(b) == << Chr(48 + (b \div 10)), Chr(48 + (b % 10)) >>

C5_ThreeDigits(n) == << Chr(48 + (n \div 100)) >> \o C5_TwoDigits(n % 100)

C5_Padded(m) ==
    IF m <= -100 THEN << "-" >> \o C5_ThreeDigits(-m)
    ELSE IF m < 0 THEN << "-" >> \o C5_TwoDigits(-m)
    ELSE C5_ThreeDigits(m)

\* C5: the place shard key is the data_set_type, then 'ra' and
\* floor(ra_hr) mod 24 in two digits if ra_hr is present, then 'lon' and
\* floor(longitude / 10) * 10 zero-padded to width 3 (sign included) if
\* longitude is present, joined with '_' and lowercased; the ra bin is in
\* 0..23, the lon bin is the multiple of 10 with bin <= longitude < bin + 10;
\* longitude -5 gives -10, ra_hr 23.9 gives 23, ra_hr 24.5 gives 0.
C5_PlaceKeyBins ==
    key_out # None =>
        LET hasRa == "ra_hr" \in DOMAIN key_in
            hasLon == "longitude" \in DOMAIN key_in
            ra == IF hasRa THEN key_in["ra_hr"] ELSE 0
            lon == IF hasLon THEN key_in["longitude"] ELSE 0
            b == CHOOSE x \in 0..23 :
                    \E q \in -3..3 : /\ 10 * (x + 24 * q) <= ra
                                     /\ ra < 10 * (x + 24 * q) + 10
            m == CHOOSE x \in { 10 * y : y \in -12..12 } :
                    10 * x <= lon /\ lon < 10 * (x + 10)
            type == IF key_in["data_set_type"] = Sky THEN <<"s", "k", "y">>
                    ELSE <<"e", "a", "r", "t", "h">>
        IN  /\ key_out = type
                  \o (IF hasRa THEN <<"_", "r", "a">> \o C5_TwoDigits(b) ELSE << >>)
                  \o (IF hasLon THEN <<"_", "l", "o", "n">> \o C5_Padded(m) ELSE << >>)
            /\ hasRa => RaBin(ra) = b
            /\ hasLon => LonBin(lon) = m
            /\ (hasLon /\ lon = -50 /\ ~hasRa /\ key_in["data_set_type"] = Sky)
                  => key_out = <<"s", "k", "y", "_", "l", "o", "n", "-", "1", "0">>
            /\ (hasRa /\ ra = 239 /\ ~hasLon /\ key_in["data_set_type"] = Sky)
                  => key_out = <<"s", "k", "y", "_", "r", "a", "2", "3">>
            /\ (hasRa /\ ra = 245 /\ ~hasLon /\ key_in["data_set_type"] = Sky)
                  => key_out = <<"s", "k", "y", "_", "r", "a", "0", "0">>

\* The key of a place with ra_hr 24.5 and longitude -5 has been computed.
C5_Witness ==
    /\ "ra_hr" \in DOMAIN key_in
    /\ "longitude" \in DOMAIN key_in
    /\ key_in["ra_hr"] = 245
    /\ key_in["longitude"] = -50
    /\ key_out = <<"s", "k", "y", "_", "r", "a", "0", "0", "_", "l", "o", "n",
                   "-", "1", "0">>

----------------------------------------------------------------------------
(* Properties of prettify, checked under SpecPretty                        *)

C8_AttrLine(e, a) ==
    Spaces(e.indent + 2) \o a.name \o << "=", "\"" >> \o a.value \o << "\"" >>

\* The lines a tag with attributes is re-flowed into: '<tag', one line per
\* attribute in ascending order of name, then '>' or '></tag>'.
C8_Reflowed(e, lines) ==
    /\ Len(lines) = Len(e.attrs) + 2
    /\ lines[1] = Spaces(e.indent) \o << "<" >> \o e.tag
    /\ lines[Len(lines)] =
          IF e.kind = "empty"
          THEN Spaces(e.indent) \o << ">", "<", "/" >> \o e.tag \o << ">" >>
          ELSE Spaces(e.indent) \o << ">" >>
    /\ \E p \in Permutations(1..Len(e.attrs)) :
          /\ \A i \in 1..Len(e.attrs) : lines[i + 1] = C8_AttrLine(e, e.attrs[p[i]])
          /\ \A i \in 1..(Len(e.attrs) - 1) :
                StrLess(e.attrs[p[i]].name, e.attrs[p[i + 1]].name)

C8_Rest == SubSeq(printed.lines, 2, Len(printed.lines))

\* C8 as claimed: a line that opens a tag and carries attributes is
\* re-flowed, and every line without attributes, a self-closing tag
\* included, is emitted unchanged.
C8_NoAttrsUnchanged ==
    printed.lines # << >> =>
        /\ printed.lines[1] = XmlDecl
        /\ (xml_in.kind \in {"open", "empty"} /\ xml_in.attrs # << >>)
              => C8_Reflowed(xml_in, C8_Rest)
        /\ xml_in.attrs = << >> => C8_Rest = << SerializeLine(xml_in) >>

\* C8 as amended: a line that is a tag with attributes and nothing after
\* its '>' or '/>' is re-flowed, the attributes in ascending (code point)
\* order of name whatever their input order; a self-closing tag without
\* attributes, serialized '<tag />', becomes '<tag' and '></tag>'; a tag
\* with attributes followed by text on its line ends prettify with an
\* AssertionError before anything of the line is printed; every other line
\* (the declaration, closing tags, text, opening tags without attributes)
\* is emitted unchanged.
C8_Retokenized ==
    printed.lines # << >> =>
        /\ printed.lines[1] = XmlDecl
        /\ IF xml_in.kind \in {"open", "empty"} /\ xml_in.attrs # << >>
           THEN printed.err = "none" /\ C8_Reflowed(xml_in, C8_Rest)
           ELSE IF xml_in.kind = "empty"
           THEN printed.err = "none" /\ C8_Reflowed(xml_in, C8_Rest)
                /\ Len(C8_Rest) = 2
           ELSE IF xml_in.kind = "text" /\ xml_in.attrs # << >>
           THEN printed.err = "AssertionError" /\ C8_Rest = << >>
           ELSE printed.err = "none" /\ C8_Rest = << SerializeLine(xml_in) >>

\* A self-closing tag whose three attributes came in descending order of
\* name has been re-flowed.
C8_Witness ==
    /\ printed.lines # << >>
    /\ printed.err = "none"
    /\ xml_in.kind = "empty"
    /\ Len(xml_in.attrs) = 3
    /\ StrLess(xml_in.attrs[3].name, xml_in.attrs[2].name)
    /\ StrLess(xml_in.attrs[2].name, xml_in.attrs[1].name)

----------------------------------------------------------------------------
(* Properties of the command line tool, checked under SpecTool             *)

\* The name the parser accepts for the reshard subcommand.
C9_ReshardName == << "format_imagesets" >>

\* C9: the reshard subcommand, invoked under the name the parser accepts
\* for it, loads the imageset store, rewrites it and exits with 0; and no
\* name the parser accepts reaches the 'unknown subcommand' fatal exit.
C9_ThreeWorkingSubcommands ==
    pc # "start" =>
        /\ (argv = C9_ReshardName /\ ~disk0.idb.new.exists) =>
              /\ exit_code = 0
              /\ idb_fs = IdbRewrite(LoadImagesets(<< >>, Glob(disk0.idb.dir)),
                                     disk0.idb, NoFail).fs
        /\ (argv # << >> /\ ParseArgs(argv).ok) => stderr # UsageUnknownSubcommand

C3_IsIngest == argv = << "ingest", "catalog.wtml" >>

\* The two runs ended alike and left the same shard files.
C3_SameOutput ==
    /\ snap_a.exit_code = exit_code
    /\ snap_a.idb = idb_fs.dir
    /\ snap_a.pdb = pdb_fs.dir

\* C3 as claimed: for any two orders of the same visited nodes, imagesets
\* that share a url and differ and places with equal ordering keys
\* included, the ingest leaves the same shard files.
C3_AnyOrderSameOutput ==
    (pc = "ran_b" /\ C3_IsIngest) => C3_SameOutput

\* The imagesets the walk hands to add_imageset, directly or within a place.
C3_Visited(doc) ==
    { doc[i].item : i \in { j \in 1..Len(doc) : doc[j].kind = "ImageSet" } }
    \cup UNION { { PlaceImagesets(doc[i].item)[n] :
                     n \in 1..Len(PlaceImagesets(doc[i].item)) } :
                 i \in { j \in 1..Len(doc) : doc[j].kind = "Place" } }

C3_Infos(doc) ==
    { Distill(doc[i].item) : i \in { j \in 1..Len(doc) : doc[j].kind = "Place" } }

\* No two visited imagesets share a url and differ, and no two visited
\* places of one shard have the same ordering key and differ.
C3_NoTies(doc) ==
    /\ \A x, y \in C3_Visited(doc) : x.url = y.url => x = y
    /\ \A x, y \in C3_Infos(doc) :
          (PlaceKey(x) = PlaceKey(y) /\ SortKey(x) = SortKey(y)) => x = y

\* C3 as amended: for any two orders of the same visited nodes in which
\* imagesets that share a url are equal and places of one shard with equal
\* ordering keys are equal, the two ingests starting from the same catalog
\* end alike (both succeed or both fail) and leave the same shard files
\* with the same contents in the same order in both catalog directories.
C3_OrderWithoutTies ==
    (pc = "ran_b" /\ C3_IsIngest /\ C3_NoTies(wtml)) => C3_SameOutput

\* Two places of one shard and an imageset were ingested in two different
\* orders and both runs succeeded.
C3_Witness ==
    /\ pc = "ran_b"
    /\ C3_IsIngest
    /\ C3_NoTies(wtml)
    /\ wtml # wtml_b
    /\ exit_code = 0
    /\ snap_a.exit_code = 0
    /\ Len(wtml) = 3
    /\ \E i, j, k \in 1..3 :
          /\ wtml[i].kind = "Place" /\ wtml[j].kind = "Place"
          /\ wtml[i] # wtml[j]
          /\ wtml[k].kind = "ImageSet"
    /\ \E n \in DOMAIN pdb_fs.dir.files :
          /\ Len(pdb_fs.dir.files[n]) >= 2
          /\ pdb_fs.dir.files[n][1] # pdb_fs.dir.files[n][2]

====
